---- MODULE Spec2Model ----
(***************************************************************************)
(* Model of discord_grief_bot.py: the Server class (state per tracked      *)
(* Plutonium server), the matcher retrieve_player_info_from_api, the       *)
(* channel resolver get_channels_for_server and the periodic task main.    *)
(*                                                                         *)
(* Strings are sequences of symbols (one-element TLA+ strings); None is    *)
(* the empty option <<>> and a present value v is <<v>>.  A JSON value of   *)
(* which the code tests the type is a record [kind, text].                 *)
(***************************************************************************)
EXTENDS Integers, Sequences, FiniteSets, TLC

VARIABLES
    servers,        \* dict[str, Server] of line 281: identifier -> Server
    live,           \* messages that exist in Discord: [id, channel, content, owner]
    next_id,        \* id the platform gives to the next message sent
    tick,           \* number of iterations of the loop started so far
    pc,             \* position of the task main
    cfg,            \* cfg["servers"] as loaded by this iteration (line 231)
    response,       \* the requests.Response of this iteration (line 169)
    guilds,         \* client.guilds as seen in this iteration
    i,              \* index in cfg of the entry the for loop of line 238 is at
    identifier,     \* local `identifier` of main (line 249)
    channels,       \* local `channels` of main (line 272)
    c,              \* index in channels of the channel of line 273
    issued,         \* history: what this iteration did so far, in order
    clean,          \* history: every delete() and send() so far has returned
    m_cfg,          \* matcher run on its own: argument server_cfg
    m_data,         \* matcher run on its own: argument server_data
    m_result,       \* matcher run on its own: what the call did
    m_pc,           \* matcher run on its own: "call" before, "done" after
    obj,            \* Server methods called on their own: the Server object
    before,         \* ... the object as it was before the last call
    method,         \* ... the method last called
    arg,            \* ... its argument
    ret,            \* ... what it returned
    calls           \* ... number of calls made so far

vars == <<servers, live, next_id, tick, pc, cfg, response, guilds, i,
          identifier, channels, c, issued, clean, m_cfg, m_data, m_result, m_pc,
          obj, before, method, arg, ret, calls>>

loop_vars == <<servers, live, next_id, tick, pc, cfg, response, guilds, i,
               identifier, channels, c, issued, clean>>

matcher_vars == <<m_cfg, m_data, m_result, m_pc>>

call_vars == <<obj, before, method, arg, ret, calls>>

(***************************************************************************)
(* Bounds                                                                  *)
(***************************************************************************)
MaxTicks == 2

MaxRecords == 2

MaxCalls == 2

MaxGuilds == 2

MaxChannels == 2

(***************************************************************************)
(* Values                                                                  *)
(***************************************************************************)
None == <<>>

Some(v) == <<v>>

IsNone(o) == o = <<>>

Val(o) == o[1]

\* a JSON string value, a JSON value of another type, JSON null
JStr(s) == [kind |-> "str", text |-> s]

JInt(s) == [kind |-> "int", text |-> s]

JNull == [kind |-> "null", text |-> <<>>]

\* str.lower() on one symbol, then on a string
LowerSym(s) == CASE s = "A" -> "a" [] s = "B" -> "b" [] s = "S" -> "s" [] OTHER -> s

Lower(s) == [k \in 1..Len(s) |-> LowerSym(s[k])]

\* Python's `sub in s` on strings
Contains(s, sub) ==
    \E k \in 0..(Len(s) - Len(sub)) : SubSeq(s, k + 1, k + Len(sub)) = sub

\* str.replace(key, value): leftmost non-overlapping occurrences, one scan
RECURSIVE Replace(_, _, _)
Replace(s, key, value) ==
    IF Len(s) < Len(key) THEN s
    ELSE IF SubSeq(s, 1, Len(key)) = key
         THEN value \o Replace(SubSeq(s, Len(key) + 1, Len(s)), key, value)
         ELSE <<s[1]>> \o Replace(SubSeq(s, 2, Len(s)), key, value)

Digits == <<"0", "1", "2", "3", "4", "5", "6", "7", "8", "9">>

\* str(n) for an int n >= 0
RECURSIVE StrOfInt(_)
StrOfInt(n) ==
    IF n < 10 THEN <<Digits[n + 1]>>
    ELSE StrOfInt(n \div 10) \o <<Digits[(n % 10) + 1]>>

IsDigit(s) == \E d \in 1..10 : Digits[d] = s

DigitVal(s) == (CHOOSE d \in 1..10 : Digits[d] = s) - 1

\* int(v) succeeds on a text of digits only
IntParses(s) == Len(s) > 0 /\ \A k \in 1..Len(s) : IsDigit(s[k])

RECURSIVE IntOf(_)
IntOf(s) ==
    IF Len(s) = 0 THEN 0
    ELSE 10 * IntOf(SubSeq(s, 1, Len(s) - 1)) + DigitVal(s[Len(s)])

\* ", ".join([p["username"] for p in player_array])
RECURSIVE JoinUsernames(_)
JoinUsernames(player_array) ==
    IF Len(player_array) = 0 THEN <<>>
    ELSE IF Len(player_array) = 1 THEN player_array[1].username
    ELSE player_array[1].username \o <<",", " ">> \o JoinUsernames(Tail(player_array))

(***************************************************************************)
(* class Server                                                            *)
(***************************************************************************)
FORMAT_MAP == <<
    [key |-> <<"{", "players", "}">>, attr |-> "players"],
    [key |-> <<"{", "slots", "}">>, attr |-> "slots"],
    [key |-> <<"{", "hostname", "}">>, attr |-> "hostname"],
    [key |-> <<"{", "player_list", "}">>, attr |-> "player_list"] >>

\* Server.__init__
Server__init__(player_array, message_template, hostname, slots) ==
    [ hostname |-> hostname,
      message |-> IF message_template.kind # "null" THEN message_template ELSE JStr(<<>>),
      slots |-> slots,
      players |-> Len(player_array),
      player_list |-> JoinUsernames(player_array),
      _player_array |-> player_array,
      _message_collection |-> << >> ]

\* Server.verify_message
verify_message(self, message) ==
    IF message.kind = "str" /\ self.message # message
    THEN [self EXCEPT !.message = message]
    ELSE self

\* line 57 comparing the numbers of players only
players_differ_ByCount(self, new_player_array) ==
    Len(self._player_array) # Len(new_player_array)

\* the condition of Server.check_players, which is also what it returns
players_differ(self, new_player_array) == self._player_array # new_player_array

\* Server.check_players without line 60: player_list is not regenerated
check_players_StaleList(self, new_player_array) ==
    IF players_differ(self, new_player_array)
    THEN [self EXCEPT !._player_array = new_player_array,
                      !.players = Len(new_player_array)]
    ELSE self

\* Server.check_players: the object after the call
check_players(self, new_player_array) ==
    IF players_differ(self, new_player_array)
    THEN [self EXCEPT !._player_array = new_player_array,
                      !.players = Len(new_player_array),
                      !.player_list = JoinUsernames(new_player_array)]
    ELSE self

\* str(getattr(self, attr)) for the attributes FORMAT_MAP names
AttrStr(self, attr) ==
    CASE attr = "players" -> StrOfInt(self.players)
      [] attr = "slots" -> StrOfInt(self.slots)
      [] attr = "hostname" -> self.hostname
      [] attr = "player_list" -> self.player_list

\* Server._prepare_message: one replace per entry of FORMAT_MAP, in its order
RECURSIVE PrepareFrom(_, _, _)
PrepareFrom(self, message, k) ==
    IF k > Len(FORMAT_MAP) THEN message
    ELSE PrepareFrom(self,
                     Replace(message, FORMAT_MAP[k].key, AttrStr(self, FORMAT_MAP[k].attr)),
                     k + 1)

_prepare_message(self) == PrepareFrom(self, self.message.text, 1)

\* dict helpers for _message_collection (a function channel id -> message id)
HasKey(d, k) == k \in DOMAIN d

DictPop(d, k) == [x \in (DOMAIN d) \ {k} |-> d[x]]

DictSet(d, k, v) == [x \in (DOMAIN d) \cup {k} |-> IF x = k THEN v ELSE d[x]]

\* Server.inform_channel, lines 70-75: the tracked message's delete() returned
\* ("ok"), or raised discord.Forbidden ("forbidden")
AfterDelete(self, channel_id, outcome) ==
    IF outcome = "ok"
    THEN [self EXCEPT !._message_collection = DictPop(self._message_collection, channel_id)]
    ELSE self

\* line 78 with the flag read the wrong way round
SuppressedFlagInverted(self, remove_if_empty) == ~remove_if_empty /\ self.players = 0

\* Server.inform_channel, line 78
Suppressed(self, remove_if_empty) == remove_if_empty /\ self.players = 0

\* lines 80-84 storing a handle also when send() raised Forbidden
AfterSend_AnyOutcome(self, channel_id, outcome, msg_id) ==
    [self EXCEPT !._message_collection = DictSet(self._message_collection, channel_id, msg_id)]

\* Server.inform_channel, lines 80-84: channel.send returned a message
\* ("ok", its id msg_id), or raised discord.Forbidden ("forbidden")
AfterSend(self, channel_id, outcome, msg_id) ==
    IF outcome = "ok"
    THEN [self EXCEPT !._message_collection = DictSet(self._message_collection, channel_id, msg_id)]
    ELSE self

(***************************************************************************)
(* Configured entries: a dict is a record of its values plus `keys`, the   *)
(* set of the optional keys it has                                         *)
(***************************************************************************)
Has(d, k) == k \in d.keys

(***************************************************************************)
(* get_channels_for_server                                                 *)
(***************************************************************************)
\* the test of lines 152-159 on one text channel
ChannelMatches(server_cfg, channel) ==
    IF Has(server_cfg, "partial_channel") /\ server_cfg.partial_channel
    THEN Contains(Lower(channel.name), server_cfg.channel)
    ELSE server_cfg.channel = channel.name

\* the inner loop of lines 148-159: the channels one guild adds
RECURSIVE GuildChannels(_, _, _)
GuildChannels(guild_channels, server_cfg, k) ==
    IF k > Len(guild_channels) THEN <<>>
    ELSE IF ~guild_channels[k].is_text THEN GuildChannels(guild_channels, server_cfg, k + 1)
    ELSE IF ChannelMatches(server_cfg, guild_channels[k]) THEN <<guild_channels[k]>>
    ELSE GuildChannels(guild_channels, server_cfg, k + 1)

RECURSIVE ChannelsFrom(_, _, _)
ChannelsFrom(client_guilds, server_cfg, g) ==
    IF g > Len(client_guilds) THEN <<>>
    ELSE GuildChannels(client_guilds[g], server_cfg, 1)
         \o ChannelsFrom(client_guilds, server_cfg, g + 1)

get_channels_for_server(client_guilds, server_cfg) == ChannelsFrom(client_guilds, server_cfg, 1)

(***************************************************************************)
(* get_api_response                                                        *)
(***************************************************************************)
\* get_api_response without the status check of lines 171-173
get_api_response_AnyStatus(resp) ==
    IF ~resp.decodes THEN <<>> ELSE resp.json

\* a response is [status_code, decodes, json]; {} iterates as no record
get_api_response(resp) ==
    IF resp.status_code # 200 THEN <<>>
    ELSE IF ~resp.decodes THEN <<>>
    ELSE resp.json

(***************************************************************************)
(* retrieve_player_info_from_api                                           *)
(* A call ends in [kind |-> "return"] with (players, slots), in            *)
(* [kind |-> "none"] for (None, None), or in [kind |-> "raise"].           *)
(***************************************************************************)
Return(player_data, slots) ==
    [kind |-> "return", players |-> player_data, slots |-> slots, exc |-> ""]

ReturnNone == [kind |-> "none", players |-> <<>>, slots |-> 0, exc |-> ""]

Raise(exc) == [kind |-> "raise", players |-> <<>>, slots |-> 0, exc |-> exc]

\* (server["players"], int(server["maxplayers"])) of lines 211, 213, 215
ReturnRecord(server) ==
    IF IntParses(server.maxplayers)
    THEN Return(server.players, IntOf(server.maxplayers))
    ELSE Raise("ValueError")

\* lines 202-207, with `constraints` False or the dict bound at line 197
ConstraintsSkip(constraints, server) ==
    /\ constraints # None
    /\ \/ "games" \in Val(constraints).keys /\ server.game \notin Val(constraints).games
       \/ "maps" \in Val(constraints).keys /\ server.map \notin Val(constraints).maps
       \/ "gametype" \in Val(constraints).keys /\ server.gametype # Val(constraints).gametype

\* lines 210-215 on one record: "ip", "hostname", "partial" for the branch
\* taken, "no" when none is, "raise" when None.lower() is evaluated
IdentityBranch(server, server_cfg, partial_match) ==
    IF Some(server.ip) = server_cfg.ip THEN "ip"
    ELSE IF ~partial_match /\ Some(server.hostname) = server_cfg.hostname THEN "hostname"
    ELSE IF partial_match
         THEN IF IsNone(server_cfg.hostname) THEN "raise"
              ELSE IF Contains(Lower(server.hostname), Lower(Val(server_cfg.hostname)))
                   THEN "partial" ELSE "no"
    ELSE "no"

\* the loop of lines 199-217 from record k on
RECURSIVE Scan(_, _, _, _, _)
Scan(server_data, server_cfg, partial_match, constraints, k) ==
    IF k > Len(server_data) THEN ReturnNone
    ELSE IF ConstraintsSkip(constraints, server_data[k])
         THEN Scan(server_data, server_cfg, partial_match, constraints, k + 1)
    ELSE LET branch == IdentityBranch(server_data[k], server_cfg, partial_match)
         IN IF branch = "raise" THEN Raise("AttributeError")
            ELSE IF branch = "no"
                 THEN Scan(server_data, server_cfg, partial_match, constraints, k + 1)
            ELSE ReturnRecord(server_data[k])

\* lines 194-217; line 197 reads the local `server` before the loop of line
\* 199 binds it
retrieve_player_info_from_api(server_data, server_cfg) ==
    LET partial_match == Has(server_cfg, "partial_hostname") /\ server_cfg.partial_hostname
    IN IF Has(server_cfg, "constraints") /\ Cardinality(server_cfg.constraints.keys) > 0
       THEN Raise("UnboundLocalError")
       ELSE Scan(server_data, server_cfg, partial_match, None, 1)

\* get_hostname_from_api
RECURSIVE HostnameFrom(_, _, _)
HostnameFrom(ip, server_data, k) ==
    IF k > Len(server_data) THEN <<>>
    ELSE IF server_data[k].ip = ip THEN server_data[k].hostname
    ELSE HostnameFrom(ip, server_data, k + 1)

get_hostname_from_api(ip, server_data) == HostnameFrom(ip, server_data, 1)

(***************************************************************************)
(* The inputs of an iteration                                              *)
(***************************************************************************)
px == [username |-> <<"x">>]

py == [username |-> <<"y">>]

hA == <<"A", "b">>

hB == <<"c", "d">>

ip1 == <<"1">>

ip2 == <<"2">>

Record(ip, hostname, players, maxplayers) ==
    [ip |-> ip, hostname |-> hostname, game |-> "t6zm", map |-> "zm_transit",
     gametype |-> "zgrief", players |-> players, maxplayers |-> maxplayers]

NoConstraints == [keys |-> {}, games |-> {}, maps |-> {}, gametype |-> ""]

T1 == <<"{", "hostname", "}", ":", "{", "players", "}", "/", "{", "slots", "}">>

T2 == <<"{", "player_list", "}">>

\* the entry the others are variations of: hostname hA, channel "st"
eA == [keys |-> {"finalized", "ip", "hostname", "partial_hostname", "partial_channel", "constraints"},
       finalized |-> TRUE, ip |-> Some(ip1), hostname |-> Some(hA),
       channel |-> <<"s", "t">>, partial_channel |-> FALSE, partial_hostname |-> FALSE,
       message |-> JStr(T1), constraints |-> NoConstraints,
       msg_remove_if_empty_server |-> TRUE]

eAkeep == [eA EXCEPT !.msg_remove_if_empty_server = FALSE, !.message = JStr(T2)]

eAlog == [eA EXCEPT !.channel = <<"l", "o", "g">>]

eB == [eA EXCEPT !.ip = Some(ip2), !.hostname = None, !.partial_channel = TRUE,
                 !.msg_remove_if_empty_server = FALSE]

eDraft == [eA EXCEPT !.finalized = FALSE]

eNoFlag == [eA EXCEPT !.keys = @ \ {"finalized"}]

eNoId == [eA EXCEPT !.ip = None, !.hostname = None]

eGames == [eA EXCEPT !.constraints = [NoConstraints EXCEPT !.keys = {"games"}, !.games = {"t6zm"}]]

Configs ==
    { <<eA>>, <<eAkeep>>, <<eA, eB>>, <<eDraft, eB>>, <<eNoId, eNoFlag>>,
      <<eGames, eA>>, <<eAlog, eA>> }

Rosters == { <<>>, <<px>>, <<px, py>>, <<py, px>> }

Snapshots ==
    { <<Record(ip1, hA, r, <<"1", "0">>)>> : r \in Rosters }
    \cup { <<Record(ip1, hA, <<px>>, <<"8">>)>>,
           <<Record(ip1, hA, <<px>>, <<"x">>)>>,
           <<Record(ip2, hB, <<py>>, <<"4">>), Record(ip1, hA, <<px, py>>, <<"1", "0">>)>>,
           <<Record(ip2, hA, <<>>, <<"4">>)>> }

Responses ==
    { [status_code |-> 200, decodes |-> TRUE, json |-> s] : s \in Snapshots }
    \cup { [status_code |-> 500, decodes |-> TRUE, json |-> <<Record(ip1, hA, <<>>, <<"1", "0">>)>>],
           [status_code |-> 200, decodes |-> FALSE, json |-> <<Record(ip1, hA, <<>>, <<"1", "0">>)>>] }

Channel(id, name, is_text) == [id |-> id, name |-> name, is_text |-> is_text]

Directories ==
    { << <<Channel("v1", <<"s", "t">>, FALSE), Channel("c1", <<"s", "t">>, TRUE),
           Channel("c2", <<"l", "o", "g">>, TRUE)>>,
         <<Channel("c3", <<"S", "t">>, TRUE), Channel("c4", <<"s", "t">>, TRUE)>> >>,
      << <<Channel("c2", <<"l", "o", "g">>, TRUE)>> >> }

\* what delete() and send() can do: return, raise discord.Forbidden, raise
\* another discord exception (NotFound, HTTPException)
Outcomes == {"ok", "forbidden", "fault"}

(***************************************************************************)
(* main: one iteration of the loop, cut at its awaits                      *)
(***************************************************************************)
\* line 237
api_response == get_api_response(response)

\* lines 242-247: the two `continue`s at the head of the loop body
EntrySkipped(server) ==
    \/ ~Has(server, "finalized") \/ ~server.finalized
    \/ ~Has(server, "ip") \/ ~Has(server, "hostname")
    \/ (IsNone(server.ip) /\ IsNone(server.hostname))

\* line 249
IdentifierOf(server) ==
    IF ~IsNone(server.hostname) THEN Val(server.hostname) ELSE Val(server.ip)

\* line 259
HostnameOf(server, server_data) ==
    IF ~IsNone(server.hostname) THEN Val(server.hostname)
    ELSE get_hostname_from_api(Val(server.ip), server_data)

\* line 261: `update` for an identifier seen for the first time
UpdateNew(player_data) == Len(player_data) > 0

\* lines 265-266 with `update = True` for every known identifier
UpdateKnownAlways(server_object, player_data) == TRUE

\* lines 263-266: `update` for a known identifier
UpdateKnown(server_object, player_data) == players_differ(server_object, player_data)

\* lines 263-265 taking the slot count of the matched record as well
Reconcile_SlotsFromRecord(server_object, server, m) ==
    [check_players(verify_message(server_object, server.message), m.players)
       EXCEPT !.slots = m.slots]

\* lines 263-265 building a new Server for the known identifier
Reconcile_AsNew(server_object, server, m) ==
    Server__init__(m.players, server.message, server_object.hostname, server_object.slots)

\* lines 263-265: the known Server after verify_message and check_players
Reconcile(server_object, server, m) ==
    check_players(verify_message(server_object, server.message), m.players)

\* an element of the history `issued`: op is "create" (a Server was built, n
\* its number of players), "inform" (inform_channel was called), "delete" or
\* "send" (the platform call was made, n the id of the message), "raise"
Call(op, owner, channel_id, outcome, n) ==
    [op |-> op, owner |-> owner, channel |-> channel_id, entry |-> i,
     outcome |-> outcome, n |-> n]

LoopInit ==
    /\ servers = << >>
    /\ live = {}
    /\ next_id = 1
    /\ tick = 0
    /\ pc = "idle"
    /\ cfg = <<>>
    /\ response = [status_code |-> 200, decodes |-> TRUE, json |-> <<>>]
    /\ guilds = <<>>
    /\ i = 0
    /\ identifier = <<>>
    /\ channels = <<>>
    /\ c = 0
    /\ issued = <<>>
    /\ clean = TRUE

\* no Server method is being called on its own
CallsOff ==
    /\ obj = <<>>
    /\ before = <<>>
    /\ method = "off"
    /\ arg = <<>>
    /\ ret = <<>>
    /\ calls = 0

\* the matcher is not being called on its own
MatcherOff ==
    /\ m_cfg = eA
    /\ m_data = <<>>
    /\ m_result = ReturnNone
    /\ m_pc = "off"

Init ==
    /\ LoopInit
    /\ MatcherOff
    /\ CallsOff

\* lines 231-237: the loop starts an iteration, config and API are read anew
StartTick ==
    /\ pc = "idle"
    /\ tick < MaxTicks
    /\ tick' = tick + 1
    /\ cfg' \in Configs
    /\ response' \in Responses
    /\ guilds' \in Directories
    /\ i' = 1
    /\ issued' = <<>>
    /\ pc' = "entry"
    /\ UNCHANGED <<servers, live, next_id, identifier, channels, c, clean, matcher_vars, call_vars>>

\* line 276: the for loop is over
EndTick ==
    /\ pc = "entry"
    /\ i > Len(cfg)
    /\ pc' = "idle"
    /\ i' = 0
    /\ UNCHANGED <<servers, live, next_id, tick, cfg, response, guilds, identifier,
                   channels, c, issued, clean, matcher_vars, call_vars>>

AtEntry == pc = "entry" /\ i \in 1..Len(cfg)

\* lines 242-247
SkipEntry ==
    /\ AtEntry
    /\ EntrySkipped(cfg[i])
    /\ i' = i + 1
    /\ UNCHANGED <<servers, live, next_id, tick, pc, cfg, response, guilds, identifier,
                   channels, c, issued, clean, matcher_vars, call_vars>>

\* lines 250-253: the matcher returned (None, None)
NoMatch ==
    /\ AtEntry
    /\ ~EntrySkipped(cfg[i])
    /\ retrieve_player_info_from_api(api_response, cfg[i]).kind = "none"
    /\ i' = i + 1
    /\ UNCHANGED <<servers, live, next_id, tick, pc, cfg, response, guilds, identifier,
                   channels, c, issued, clean, matcher_vars, call_vars>>

\* line 250: the matcher raised; main catches nothing, so the exception
\* leaves the task and discord.ext.tasks stops the loop
MatchRaises ==
    /\ AtEntry
    /\ ~EntrySkipped(cfg[i])
    /\ retrieve_player_info_from_api(api_response, cfg[i]).kind = "raise"
    /\ pc' = "failed"
    /\ issued' = Append(issued, Call("raise", <<>>, "",
                        retrieve_player_info_from_api(api_response, cfg[i]).exc, 0))
    /\ UNCHANGED <<servers, live, next_id, tick, cfg, response, guilds, i, identifier,
                   channels, c, clean, matcher_vars, call_vars>>

\* lines 271-274 up to the first await: with `update`, resolve the channels
\* and enter inform_channel for the first of them
BeginPublish(log, server, update) ==
    LET chs == IF update THEN get_channels_for_server(guilds, server) ELSE <<>>
    IN IF Len(chs) > 0
       THEN /\ channels' = chs
            /\ c' = 1
            /\ identifier' = IdentifierOf(server)
            /\ pc' = "inform"
            /\ issued' = Append(log, Call("inform", IdentifierOf(server), chs[1].id, "call", 0))
            /\ UNCHANGED i
       ELSE /\ i' = i + 1
            /\ issued' = log
            /\ UNCHANGED <<pc, identifier, channels, c>>

\* lines 258-261, 268-269: first match of an identifier
NewServer ==
    /\ AtEntry
    /\ ~EntrySkipped(cfg[i])
    /\ LET server == cfg[i]
           m == retrieve_player_info_from_api(api_response, server)
           id == IdentifierOf(server)
       IN /\ m.kind = "return"
          /\ ~HasKey(servers, id)
          /\ servers' = DictSet(servers, id,
                 Server__init__(m.players, server.message,
                                HostnameOf(server, api_response), m.slots))
          /\ BeginPublish(Append(issued, Call("create", id, "", "", Len(m.players))),
                          server, UpdateNew(m.players))
    /\ UNCHANGED <<live, next_id, tick, cfg, response, guilds, clean, matcher_vars, call_vars>>

\* lines 262-269: a known identifier
KnownServer ==
    /\ AtEntry
    /\ ~EntrySkipped(cfg[i])
    /\ LET server == cfg[i]
           m == retrieve_player_info_from_api(api_response, server)
           id == IdentifierOf(server)
       IN /\ m.kind = "return"
          /\ HasKey(servers, id)
          /\ servers' = DictSet(servers, id, Reconcile(servers[id], server, m))
          /\ BeginPublish(issued, server,
                 UpdateKnown(verify_message(servers[id], server.message), m.players))
    /\ UNCHANGED <<live, next_id, tick, cfg, response, guilds, clean, matcher_vars, call_vars>>

(***************************************************************************)
(* Server.inform_channel, called at line 274 for channels[c]               *)
(***************************************************************************)
InCall == pc \in {"inform", "send"} /\ c \in 1..Len(channels)

\* line 70 looking the channel up under a key the dict never holds
TrackedNever == FALSE

\* line 70: `channel.id in self._message_collection`
Tracked == HasKey(servers[identifier]._message_collection, channels[c].id)

\* inform_channel returned: lines 273-274 go on to the next channel, or the
\* for loop of line 238 to the next entry
Returned(log) ==
    IF c < Len(channels)
    THEN /\ c' = c + 1
         /\ pc' = "inform"
         /\ issued' = Append(log, Call("inform", identifier, channels[c + 1].id, "call", 0))
         /\ UNCHANGED <<i, identifier, channels>>
    ELSE /\ i' = i + 1
         /\ pc' = "entry"
         /\ issued' = log
         /\ UNCHANGED <<identifier, channels, c>>

\* the platform's side of delete(): the message is gone when it returns
PlatformDelete(messages, msg_id, outcome) ==
    IF outcome = "ok" THEN {m \in messages : m.id # msg_id} ELSE messages

\* the platform's side of send(): the message exists when it returns
PlatformSend(messages, msg_id, channel_id, content, owner, outcome) ==
    IF outcome = "ok"
    THEN messages \cup {[id |-> msg_id, channel |-> channel_id, content |-> content,
                         owner |-> owner]}
    ELSE messages

\* lines 70-75: delete() of the tracked message returns or raises Forbidden
Delete ==
    /\ pc = "inform" /\ InCall /\ Tracked
    /\ \E outcome \in {"ok", "forbidden"} :
          /\ live' = PlatformDelete(live,
                        servers[identifier]._message_collection[channels[c].id], outcome)
          /\ servers' = [servers EXCEPT
                           ![identifier] = AfterDelete(@, channels[c].id, outcome)]
          /\ issued' = Append(issued, Call("delete", identifier, channels[c].id, outcome,
                                servers[identifier]._message_collection[channels[c].id]))
          /\ clean' = (clean /\ outcome = "ok")
    /\ pc' = "send"
    /\ UNCHANGED <<next_id, tick, cfg, response, guilds, i, identifier, channels, c,
                   matcher_vars, call_vars>>

\* line 72: delete() raises an exception that is not Forbidden; nothing
\* catches it, the task ends
DeleteFault ==
    /\ pc = "inform" /\ InCall /\ Tracked
    /\ issued' = Append(issued, Call("delete", identifier, channels[c].id, "fault",
                          servers[identifier]._message_collection[channels[c].id]))
    /\ pc' = "failed"
    /\ clean' = FALSE
    /\ UNCHANGED <<servers, live, next_id, tick, cfg, response, guilds, i, identifier,
                   channels, c, matcher_vars, call_vars>>

\* the call is at line 77: nothing is tracked for the channel, or the delete
\* is done
AtSend == InCall /\ (pc = "send" \/ ~Tracked)

\* lines 78-79
Suppress ==
    /\ AtSend
    /\ Suppressed(servers[identifier], cfg[i].msg_remove_if_empty_server)
    /\ Returned(issued)
    /\ UNCHANGED <<servers, live, next_id, tick, cfg, response, guilds, clean, matcher_vars, call_vars>>

\* lines 80-84: send() returns a message or raises Forbidden
Send ==
    /\ AtSend
    /\ ~Suppressed(servers[identifier], cfg[i].msg_remove_if_empty_server)
    /\ \E outcome \in {"ok", "forbidden"} :
          /\ live' = PlatformSend(live, next_id, channels[c].id,
                        _prepare_message(servers[identifier]), identifier, outcome)
          /\ next_id' = IF outcome = "ok" THEN next_id + 1 ELSE next_id
          /\ servers' = [servers EXCEPT
                           ![identifier] = AfterSend(@, channels[c].id, outcome, next_id)]
          /\ Returned(Append(issued, Call("send", identifier, channels[c].id, outcome,
                                      IF outcome = "ok" THEN next_id ELSE 0)))
          /\ clean' = (clean /\ outcome = "ok")
    /\ UNCHANGED <<tick, cfg, response, guilds, matcher_vars, call_vars>>

\* line 80: send() raises an exception that is not Forbidden
SendFault ==
    /\ AtSend
    /\ ~Suppressed(servers[identifier], cfg[i].msg_remove_if_empty_server)
    /\ issued' = Append(issued, Call("send", identifier, channels[c].id, "fault", 0))
    /\ pc' = "failed"
    /\ clean' = FALSE
    /\ UNCHANGED <<servers, live, next_id, tick, cfg, response, guilds, i, identifier,
                   channels, c, matcher_vars, call_vars>>

Next ==
    \/ StartTick
    \/ EndTick
    \/ SkipEntry
    \/ NoMatch
    \/ MatchRaises
    \/ NewServer
    \/ KnownServer
    \/ Delete
    \/ DeleteFault
    \/ Suppress
    \/ Send
    \/ SendFault

Spec == Init /\ [][Next]_vars

(***************************************************************************)
(* retrieve_player_info_from_api called on its own, on every entry and     *)
(* snapshot of a wider set than the loop above reads                       *)
(***************************************************************************)
MatcherRecords ==
    { [Record(ip, hostname, players, maxplayers) EXCEPT !.game = game] :
        ip \in {ip1, ip2}, hostname \in {hA, <<"a", "b">>, hB},
        players \in {<<px>>, <<py>>}, maxplayers \in {<<"4">>, <<"x">>},
        game \in {"t6zm"} }
    \cup { [Record(ip1, hA, <<>>, <<"1", "8">>) EXCEPT !.game = "iw5mp"] }

RECURSIVE SeqsUpTo(_, _)
SeqsUpTo(S, n) ==
    IF n = 0 THEN { <<>> }
    ELSE SeqsUpTo(S, n - 1)
         \cup { Append(q, x) : q \in {p \in SeqsUpTo(S, n - 1) : Len(p) = n - 1}, x \in S }

MatcherSnapshots == SeqsUpTo(MatcherRecords, MaxRecords)

MatcherConstraints ==
    { NoConstraints,
      [NoConstraints EXCEPT !.keys = {"games"}, !.games = {"t6zm"}],
      [NoConstraints EXCEPT !.keys = {"gametype", "maps"}, !.gametype = "zgrief",
                            !.maps = {"zm_transit"}] }

MatcherEntries ==
    { [eA EXCEPT !.keys = ks, !.ip = ip, !.hostname = hostname,
                 !.partial_hostname = partial, !.constraints = cons] :
        ks \in { eA.keys, eA.keys \ {"partial_hostname"}, eA.keys \ {"constraints"} },
        ip \in {None, Some(ip1)},
        hostname \in {None, Some(hA), Some(<<"a">>), Some(<<"B">>)},
        partial \in BOOLEAN,
        cons \in MatcherConstraints }

InitMatcher ==
    /\ LoopInit
    /\ m_cfg \in {e \in MatcherEntries : ~EntrySkipped(e)}
    /\ m_data \in MatcherSnapshots
    /\ m_result = ReturnNone
    /\ m_pc = "call"
    /\ CallsOff

\* main's call of line 250
Match ==
    /\ m_pc = "call"
    /\ m_result' = retrieve_player_info_from_api(m_data, m_cfg)
    /\ m_pc' = "done"
    /\ UNCHANGED <<loop_vars, m_cfg, m_data, call_vars>>

NextMatcher == Match

SpecMatcher == InitMatcher /\ [][NextMatcher]_vars

(***************************************************************************)
(* Vocabulary of the properties below                                      *)
(***************************************************************************)
ChannelIds == { ch.id : ch \in UNION { { g[k] : k \in DOMAIN g } :
                    g \in UNION { { d[k] : k \in DOMAIN d } : d \in Directories } } }

\* the messages of Server `owner` that exist in channel `channel_id`
MessagesOf(owner, channel_id) ==
    { m \in live : m.owner = owner /\ m.channel = channel_id }

IsPlatformCall(e) == e.op \in {"inform", "delete", "send"}

PlatformCalls(log) == SelectSeq(log, IsPlatformCall)

LastIssued == issued[Len(issued)]

\* the identity rules of the matcher, as the specification words them
WantsPartial(e) == Has(e, "partial_hostname") /\ e.partial_hostname

RuleIp(rec, e) == ~IsNone(e.ip) /\ rec.ip = Val(e.ip)

RuleHostname(rec, e) ==
    ~WantsPartial(e) /\ ~IsNone(e.hostname) /\ rec.hostname = Val(e.hostname)

RulePartialHostname(rec, e) ==
    WantsPartial(e) /\ ~IsNone(e.hostname)
    /\ Contains(Lower(rec.hostname), Lower(Val(e.hostname)))

SatisfiesIdentity(rec, e) ==
    RuleIp(rec, e) \/ RuleHostname(rec, e) \/ RulePartialHostname(rec, e)

DeclaresConstraints(e) == Has(e, "constraints") /\ e.constraints.keys # {}

SatisfiesConstraints(rec, e) ==
    DeclaresConstraints(e) =>
        /\ "games" \in e.constraints.keys => rec.game \in e.constraints.games
        /\ "maps" \in e.constraints.keys => rec.map \in e.constraints.maps
        /\ "gametype" \in e.constraints.keys => rec.gametype = e.constraints.gametype

\* index of the first record, in snapshot order, that passes the declared
\* constraints and one identity rule; 0 when there is none
FirstMatching(data, e) ==
    LET hits == { k \in 1..Len(data) :
                    SatisfiesConstraints(data[k], e) /\ SatisfiesIdentity(data[k], e) }
    IN IF hits = {} THEN 0 ELSE CHOOSE k \in hits : \A l \in hits : k <= l

\* what the matcher is specified to answer when the matching record is well formed
MatchOf(data, e) ==
    IF FirstMatching(data, e) = 0 THEN ReturnNone
    ELSE Return(data[FirstMatching(data, e)].players,
                IntOf(data[FirstMatching(data, e)].maxplayers))

WellFormed(data, e) ==
    FirstMatching(data, e) # 0 => IntParses(data[FirstMatching(data, e)].maxplayers)

\* the snapshot of an iteration: empty when the request failed
Snapshot ==
    IF response.status_code = 200 /\ response.decodes THEN response.json ELSE <<>>

(***************************************************************************)
(* C1: when every delete and send so far has succeeded, a Server has at    *)
(* most one message alive in a channel at every point of a publish: the    *)
(* tracked one if a handle is tracked, none otherwise (so the old message  *)
(* is gone before the new one is sent), and after a send the handle is     *)
(* that of the message just sent.                                          *)
(***************************************************************************)
C1_OneLiveMessagePerChannel ==
    clean =>
      /\ \A id \in DOMAIN servers : \A ch \in ChannelIds :
            LET coll == servers[id]._message_collection
            IN /\ Cardinality(MessagesOf(id, ch)) <= 1
               /\ HasKey(coll, ch) => { m.id : m \in MessagesOf(id, ch) } = { coll[ch] }
               /\ ~HasKey(coll, ch) => MessagesOf(id, ch) = {}
      /\ \A k \in DOMAIN issued :
            (/\ issued[k].op = "send"
             /\ \A l \in (k + 1)..Len(issued) :
                   ~(issued[l].op \in {"delete", "send"}
                     /\ issued[l].owner = issued[k].owner
                     /\ issued[l].channel = issued[k].channel))
            => /\ HasKey(servers[issued[k].owner]._message_collection, issued[k].channel)
               /\ servers[issued[k].owner]._message_collection[issued[k].channel] = issued[k].n

\* a second publish to a channel has deleted the first message and sent another
C1_Witness ==
    /\ clean
    /\ pc = "entry"
    /\ \E k, l \in DOMAIN issued :
          /\ k < l
          /\ issued[k].op = "delete" /\ issued[l].op = "send"
          /\ issued[k].owner = issued[l].owner /\ issued[k].channel = issued[l].channel
          /\ issued[l].n > issued[k].n
          /\ MessagesOf(issued[l].owner, issued[l].channel) # {}

(***************************************************************************)
(* C2: a delete or send that raises something other than Forbidden ends    *)
(* only that publish; the iteration and the loop go on.                    *)
(***************************************************************************)
C2_FaultEndsOnlyThePublish ==
    \A k \in DOMAIN issued :
        (issued[k].op \in {"delete", "send"} /\ issued[k].outcome = "fault")
        => pc # "failed"

(***************************************************************************)
(* C3: once the delete of the tracked message was refused (Forbidden), no  *)
(* handle is tracked for the channel, unless a later send has stored one.  *)
(***************************************************************************)
C3_RefusedDeleteDropsHandle ==
    \A k \in DOMAIN issued :
        (/\ issued[k].op = "delete" /\ issued[k].outcome = "forbidden"
         /\ \A l \in (k + 1)..Len(issued) :
               ~(issued[l].op = "send" /\ issued[l].outcome = "ok"
                 /\ issued[l].owner = issued[k].owner
                 /\ issued[l].channel = issued[k].channel))
        => ~HasKey(servers[issued[k].owner]._message_collection, issued[k].channel)

(***************************************************************************)
(* C4: an entry whose matching record has a non-numeric maxplayers is       *)
(* skipped: the step that handles it leaves the Servers alone and goes on  *)
(* to the next entry of the iteration.                                     *)
(***************************************************************************)
C4_MalformedSlotsSkipsEntry ==
    [][ (/\ AtEntry /\ ~EntrySkipped(cfg[i])
         /\ FirstMatching(Snapshot, cfg[i]) # 0
         /\ ~WellFormed(Snapshot, cfg[i]))
        => (servers' = servers /\ pc' = "entry" /\ i' = i + 1) ]_vars

(***************************************************************************)
(* C7: with suppressIfEmpty set and no player, after the tracked message   *)
(* was deleted the call returns without sending: the old message is gone,  *)
(* nothing new exists, no handle is tracked for the channel.               *)
(***************************************************************************)
C7_EmptyServerDeletesOnly ==
    [][ (/\ pc = "send" /\ InCall
         /\ cfg[i].msg_remove_if_empty_server
         /\ servers[identifier].players = 0
         /\ Len(issued) > 0
         /\ LastIssued.op = "delete" /\ LastIssued.outcome = "ok")
        => (/\ live' = live
            /\ \A m \in live' : m.id # LastIssued.n
            /\ next_id' = next_id
            /\ ~HasKey(servers'[identifier]._message_collection, channels[c].id)
            /\ pc' \in {"inform", "entry"}
            /\ SelectSeq(issued', LAMBDA e : e.op = "send")
                 = SelectSeq(issued, LAMBDA e : e.op = "send")) ]_vars

\* the call has returned right after its delete, for a Server without players
C7_Witness ==
    /\ pc = "entry"
    /\ Len(issued) > 0
    /\ LastIssued.op = "delete" /\ LastIssued.outcome = "ok"
    /\ servers[LastIssued.owner].players = 0
    /\ cfg[LastIssued.entry].msg_remove_if_empty_server
    /\ ~HasKey(servers[LastIssued.owner]._message_collection, LastIssued.channel)
    /\ \A m \in live : m.id # LastIssued.n

(***************************************************************************)
(* C5: for an entry that declares constraints, the matcher answers with    *)
(* the first record, in snapshot order, that passes every declared         *)
(* constraint and one identity rule, or with no match; it does not fail.   *)
(***************************************************************************)
C5_ConstraintsFromEntry ==
    (m_pc = "done" /\ DeclaresConstraints(m_cfg) /\ WellFormed(m_data, m_cfg))
    => m_result = MatchOf(m_data, m_cfg)

(***************************************************************************)
(* C6: the step that handles an entry which is not finalized, lacks        *)
(* identifiers or matches no record of the snapshot (empty when the        *)
(* request failed) changes no Server and no message, and calls nothing.    *)
(***************************************************************************)
NotFinalized(e) == ~Has(e, "finalized") \/ ~e.finalized

LacksIdentifiers(e) ==
    ~Has(e, "ip") \/ ~Has(e, "hostname") \/ (IsNone(e.ip) /\ IsNone(e.hostname))

C6_SkippedEntryChangesNothing ==
    [][ (/\ AtEntry
         /\ \/ NotFinalized(cfg[i])
            \/ LacksIdentifiers(cfg[i])
            \/ FirstMatching(Snapshot, cfg[i]) = 0)
        => (/\ servers' = servers
            /\ live' = live
            /\ next_id' = next_id
            /\ PlatformCalls(issued') = PlatformCalls(issued)) ]_vars

\* the request failed, the first entry is a tracked server with players and
\* a posted message, and the iteration is past it without having called anything
C6_Witness ==
    /\ pc = "entry" /\ i = 2
    /\ response.status_code # 200
    /\ ~NotFinalized(cfg[1]) /\ ~LacksIdentifiers(cfg[1])
    /\ HasKey(servers, IdentifierOf(cfg[1]))
    /\ servers[IdentifierOf(cfg[1])].players > 0
    /\ DOMAIN servers[IdentifierOf(cfg[1])]._message_collection # {}
    /\ issued = <<>>

(***************************************************************************)
(* C8: in the iteration that creates the Server of an entry, the Server is *)
(* stored; with players, inform_channel is called exactly once for each    *)
(* channel the entry resolves to; without players nothing is called.       *)
(***************************************************************************)
C8_FirstMatchPublishesOncePerChannel ==
    \A k \in DOMAIN issued :
        (issued[k].op = "create" /\ (pc \in {"idle", "failed"} \/ i > issued[k].entry))
        => LET e == issued[k].entry
               chs == get_channels_for_server(guilds, cfg[e])
           IN /\ HasKey(servers, issued[k].owner)
              /\ IF issued[k].n > 0
                 THEN \A j \in DOMAIN chs :
                         Cardinality({ l \in DOMAIN issued :
                                         /\ issued[l].op = "inform"
                                         /\ issued[l].entry = e
                                         /\ issued[l].channel = chs[j].id }) = 1
                 ELSE \A l \in DOMAIN issued :
                         issued[l].entry = e => ~IsPlatformCall(issued[l])

(***************************************************************************)
(* C9: the step that handles an entry whose identifier is tracked and      *)
(* whose matched roster equals the stored one calls nothing and changes no *)
(* message, whatever the record's slot count or the configured template.   *)
(***************************************************************************)
C9_EqualRosterNoRepost ==
    [][ (/\ AtEntry
         /\ ~NotFinalized(cfg[i]) /\ ~LacksIdentifiers(cfg[i])
         /\ FirstMatching(Snapshot, cfg[i]) # 0
         /\ HasKey(servers, IdentifierOf(cfg[i]))
         /\ servers[IdentifierOf(cfg[i])]._player_array
              = Snapshot[FirstMatching(Snapshot, cfg[i])].players)
        => (/\ live' = live
            /\ next_id' = next_id
            /\ PlatformCalls(issued') = PlatformCalls(issued)) ]_vars

\* a tracked server was matched again with the same players, another slot
\* count and another template, and the iteration is past it without a call
C9_Witness ==
    /\ pc = "entry" /\ i = 2 /\ issued = <<>>
    /\ ~NotFinalized(cfg[1]) /\ ~LacksIdentifiers(cfg[1])
    /\ FirstMatching(Snapshot, cfg[1]) # 0
    /\ HasKey(servers, IdentifierOf(cfg[1]))
    /\ LET self == servers[IdentifierOf(cfg[1])]
           rec == Snapshot[FirstMatching(Snapshot, cfg[1])]
       IN /\ self._player_array = rec.players
          /\ self.players > 0
          /\ StrOfInt(self.slots) # rec.maxplayers
          /\ self.message = cfg[1].message
          /\ \E m \in live : /\ m.owner = IdentifierOf(cfg[1])
                             /\ m.id = self._message_collection[m.channel]
                             /\ m.content # _prepare_message(self)

(***************************************************************************)
(* C10: for an entry without constraints, the matcher answers with the     *)
(* first record, in snapshot order, that satisfies any identity rule, and  *)
(* with no match only when no record satisfies one.                        *)
(***************************************************************************)
C10_FirstRecordInOrderWins ==
    (m_pc = "done" /\ ~DeclaresConstraints(m_cfg) /\ WellFormed(m_data, m_cfg))
    => m_result = MatchOf(m_data, m_cfg)

(***************************************************************************)
(* The methods of Server called on their own: an object is built by        *)
(* Server.__init__ and then verify_message, check_players and              *)
(* _prepare_message are called on it in any order                          *)
(***************************************************************************)
p1 == [username |-> <<"x">>, ping |-> 30]

p1b == [username |-> <<"x">>, ping |-> 45]

p2 == [username |-> <<"y">>, ping |-> 30]

ServerRosters == { <<>>, <<p1>>, <<p1b>>, <<p1, p2>>, <<p2, p1>> }

\* values server["message"] can have: null, a number, "", two templates
ServerMessages == { JNull, JInt(<<"5">>), JStr(<<>>), JStr(T1), JStr(T2) }

ServerHostnames == { hA, <<"{", "player_list", "}">> }

ServerSlots == { 4, 10 }

InitServer ==
    /\ LoopInit
    /\ MatcherOff
    /\ \E r \in ServerRosters, m \in ServerMessages, h \in ServerHostnames, n \in ServerSlots :
          /\ obj = Server__init__(r, m, h, n)
          /\ arg = <<r>>
    /\ before = obj
    /\ method = "__init__"
    /\ ret = <<>>
    /\ calls = 0

\* server_object.verify_message(server["message"]) of line 264
CallVerifyMessage ==
    /\ method # "off" /\ calls < MaxCalls
    /\ \E m \in ServerMessages :
          /\ obj' = verify_message(obj, m)
          /\ arg' = <<m>>
    /\ ret' = <<>>
    /\ before' = obj
    /\ method' = "verify_message"
    /\ calls' = calls + 1
    /\ UNCHANGED <<loop_vars, matcher_vars>>

\* server_object.check_players(player_data) of line 265
CallCheckPlayers ==
    /\ method # "off" /\ calls < MaxCalls
    /\ \E r \in ServerRosters :
          /\ obj' = check_players(obj, r)
          /\ ret' = <<players_differ(obj, r)>>
          /\ arg' = <<r>>
    /\ before' = obj
    /\ method' = "check_players"
    /\ calls' = calls + 1
    /\ UNCHANGED <<loop_vars, matcher_vars>>

\* self._prepare_message() of line 80
CallPrepareMessage ==
    /\ method # "off" /\ calls < MaxCalls
    /\ ret' = <<_prepare_message(obj)>>
    /\ arg' = <<>>
    /\ obj' = obj
    /\ before' = obj
    /\ method' = "_prepare_message"
    /\ calls' = calls + 1
    /\ UNCHANGED <<loop_vars, matcher_vars>>

NextServer ==
    \/ CallVerifyMessage
    \/ CallPrepareMessage
    \/ CallCheckPlayers

SpecServer == InitServer /\ [][NextServer]_vars

(***************************************************************************)
(* C11: the rendered message is the template with each placeholder that    *)
(* occurs in it replaced by its attribute, in one pass over the template:  *)
(* text that a value brings in is not substituted again.                   *)
(***************************************************************************)
\* index in FORMAT_MAP of the placeholder that starts s; 0 when none does
PlaceholderAt(s) ==
    LET hits == { j \in DOMAIN FORMAT_MAP :
                    /\ Len(FORMAT_MAP[j].key) <= Len(s)
                    /\ SubSeq(s, 1, Len(FORMAT_MAP[j].key)) = FORMAT_MAP[j].key }
    IN IF hits = {} THEN 0 ELSE CHOOSE j \in hits : TRUE

RECURSIVE SinglePass(_, _)
SinglePass(s, self) ==
    IF Len(s) = 0 THEN <<>>
    ELSE IF PlaceholderAt(s) # 0
         THEN AttrStr(self, FORMAT_MAP[PlaceholderAt(s)].attr)
              \o SinglePass(SubSeq(s, Len(FORMAT_MAP[PlaceholderAt(s)].key) + 1, Len(s)), self)
         ELSE <<s[1]>> \o SinglePass(Tail(s), self)

C11_SinglePassRendering ==
    method = "_prepare_message" => ret = <<SinglePass(obj.message.text, obj)>>

(***************************************************************************)
(* C13: check_players returns True exactly when the new roster differs     *)
(* from the stored one (another length, or another player at some          *)
(* position); on False the object is as before, on True the roster fields  *)
(* are those of the new roster and the other fields are as before.         *)
(***************************************************************************)
RostersDiffer(old, new) ==
    Len(old) # Len(new) \/ \E k \in 1..Len(old) : old[k] # new[k]

C13_ChangeDetectedExactly ==
    method = "check_players" =>
        /\ ret = <<RostersDiffer(before._player_array, arg[1])>>
        /\ ret = <<FALSE>> => obj = before
        /\ ret = <<TRUE>> =>
              obj = [before EXCEPT !._player_array = arg[1],
                                   !.players = Len(arg[1]),
                                   !.player_list = JoinUsernames(arg[1])]

\* both answers have been given: the last call saw an equal roster, and the
\* object holds a roster that an earlier call changed
C13_Witness ==
    /\ method = "check_players"
    /\ calls = 2
    /\ ret = <<FALSE>>
    /\ Len(arg[1]) = 2
    /\ obj._player_array = arg[1]

(***************************************************************************)
(* C14: verify_message replaces the stored template only by a candidate    *)
(* that is a non-empty string different from it; null, a value that is not *)
(* a string and the empty string leave the template as it is.              *)
(***************************************************************************)
C14_TemplateOverwrittenOnlyByNonEmptyString ==
    method = "verify_message" =>
        obj = [before EXCEPT !.message =
                 IF arg[1].kind = "str" /\ arg[1].text # <<>> /\ arg[1] # before.message
                 THEN arg[1] ELSE before.message]

(***************************************************************************)
(* get_channels_for_server called on its own, on every directory of at     *)
(* most MaxGuilds guilds of at most MaxChannels channels each              *)
(***************************************************************************)
ChannelNames == { <<"s", "t">>, <<"S", "t">>, <<"x", "s", "t">> }

\* the channels a guild can have at position k (the id tells guild and position)
ChannelsAt(g, k) == { Channel(<<g, k>>, n, t) : n \in ChannelNames, t \in BOOLEAN }

RECURSIVE GuildsOfLen(_, _)
GuildsOfLen(g, n) ==
    IF n = 0 THEN { <<>> }
    ELSE { Append(chs, ch) : chs \in GuildsOfLen(g, n - 1), ch \in ChannelsAt(g, n) }

GuildsAt(g) == UNION { GuildsOfLen(g, n) : n \in 0..MaxChannels }

\* client.guilds with n guilds
RECURSIVE ResolverGuilds(_)
ResolverGuilds(n) ==
    IF n = 0 THEN { <<>> }
    ELSE { Append(gs, guild) : gs \in ResolverGuilds(n - 1), guild \in GuildsAt(n) }

\* the keys of an entry the resolver reads: channel and partial_channel
ResolverEntries ==
    { [keys |-> ks, channel |-> tok, partial_channel |-> pc_flag] :
        ks \in { {}, {"partial_channel"} }, tok \in { <<"s", "t">>, <<"S", "t">> },
        pc_flag \in BOOLEAN }

InitResolver ==
    /\ LoopInit
    /\ MatcherOff
    /\ obj = <<>>
    /\ before = <<>>
    /\ method = "resolver"
    /\ \E n \in 0..MaxGuilds : \E gs \in ResolverGuilds(n), e \in ResolverEntries :
          arg = <<gs, e>>
    /\ ret = <<>>
    /\ calls = 0

\* channels = get_channels_for_server(client, server) of line 272
CallResolve ==
    /\ method = "resolver"
    /\ ret' = <<get_channels_for_server(arg[1], arg[2])>>
    /\ method' = "get_channels_for_server"
    /\ calls' = calls + 1
    /\ UNCHANGED <<obj, before, arg, loop_vars, matcher_vars>>

NextResolver == CallResolve

SpecResolver == InitResolver /\ [][NextResolver]_vars

(***************************************************************************)
(* C12: the resolver returns, guild by guild, the first text channel of    *)
(* the guild whose name matches the entry's token: with partial_channel    *)
(* true the lowercased name contains the lowercased token, otherwise the   *)
(* name equals the token; a guild without such a channel adds nothing.     *)
(***************************************************************************)
NameMatchesToken(e, channel) ==
    IF Has(e, "partial_channel") /\ e.partial_channel
    THEN Contains(Lower(channel.name), Lower(e.channel))
    ELSE channel.name = e.channel

FirstMatchIn(guild, e) ==
    LET hits == { k \in 1..Len(guild) : guild[k].is_text /\ NameMatchesToken(e, guild[k]) }
    IN IF hits = {} THEN <<>>
       ELSE <<guild[CHOOSE k \in hits : \A j \in hits : k <= j]>>

RECURSIVE FirstMatchPerGuild(_, _)
FirstMatchPerGuild(gs, e) ==
    IF Len(gs) = 0 THEN <<>>
    ELSE FirstMatchIn(Head(gs), e) \o FirstMatchPerGuild(Tail(gs), e)

C12_FirstMatchPerGuild ==
    method = "get_channels_for_server" => ret = <<FirstMatchPerGuild(arg[1], arg[2])>>

(***************************************************************************)
(* C15: a message is sent to a channel only in a state where the Server    *)
(* tracks no handle for that channel, whatever the deletes and sends       *)
(* before it returned (the collection maps a channel to one handle, so it  *)
(* holds at most one entry for a channel by construction).                 *)
(***************************************************************************)
C15_SendOnlyWhenUntracked ==
    [][ \A k \in (Len(issued) + 1)..Len(issued') :
          issued'[k].op = "send"
          => ~HasKey(servers[issued'[k].owner]._message_collection, issued'[k].channel) ]_vars

(***************************************************************************)
(* C16: for every Server, players is the length of its roster and          *)
(* player_list is the usernames of the roster, in roster order, joined by  *)
(* a comma and a space.                                                    *)
(***************************************************************************)
RECURSIVE JoinedUpTo(_, _)
JoinedUpTo(roster, n) ==
    IF n = 0 THEN <<>>
    ELSE IF n = 1 THEN roster[1].username
    ELSE JoinedUpTo(roster, n - 1) \o <<",", " ">> \o roster[n].username

C16_DerivedFieldsFresh ==
    \A id \in DOMAIN servers :
        /\ servers[id].players = Len(servers[id]._player_array)
        /\ servers[id].player_list
             = JoinedUpTo(servers[id]._player_array, Len(servers[id]._player_array))

\* a Server created in an earlier iteration has taken a roster of two
\* players and has replaced its message
C16_Witness ==
    /\ tick = 2
    /\ pc = "idle"
    /\ \E k, l \in DOMAIN issued :
          /\ k < l
          /\ issued[k].op = "delete" /\ issued[l].op = "send"
          /\ issued[k].owner = issued[l].owner
          /\ issued[l].outcome = "ok"
          /\ servers[issued[l].owner].players = 2
          /\ \A j \in DOMAIN issued : issued[j].op # "create"

(***************************************************************************)
(* C17: no step changes the hostname or the slots of a Server that exists, *)
(* also when the record matched later reports another hostname or          *)
(* maxplayers.                                                             *)
(***************************************************************************)
C17_HostnameAndSlotsFixed ==
    [][ \A id \in DOMAIN servers :
          /\ id \in DOMAIN servers'
          /\ servers'[id].hostname = servers[id].hostname
          /\ servers'[id].slots = servers[id].slots ]_vars

\* the record of the snapshot an entry is matched with
MatchedRecord(e) == Snapshot[FirstMatching(Snapshot, e)]

\* in the second iteration two known Servers were published, one matched
\* with a record of another maxplayers, one with a record of another hostname
C17_Witness ==
    /\ tick = 2
    /\ pc = "idle"
    /\ \A j \in DOMAIN issued : issued[j].op # "create"
    /\ \E k, l \in DOMAIN issued :
          /\ issued[k].op = "inform" /\ issued[l].op = "inform"
          /\ IntOf(MatchedRecord(cfg[issued[k].entry]).maxplayers)
               # servers[issued[k].owner].slots
          /\ MatchedRecord(cfg[issued[l].entry]).hostname
               # servers[issued[l].owner].hostname

(***************************************************************************)
(* C18: at the end of an iteration, when every delete and send has         *)
(* succeeded, for every finalized entry that matched a record and every    *)
(* channel resolved for it, the message the Server tracks for the channel  *)
(* (if any) was rendered from the roster matched in this iteration.        *)
(***************************************************************************)
Templates == { T1, T2 }

\* what a Server shows of roster r under one of the configured templates
RenderedFrom(server_object, r) ==
    { PrepareFrom([server_object EXCEPT !._player_array = r,
                                        !.players = Len(r),
                                        !.player_list = JoinedUpTo(r, Len(r))], t, 1) :
        t \in Templates }

C18_TrackedMessagesShowMatchedRoster ==
    (pc = "idle" /\ tick > 0 /\ clean) =>
        \A k \in DOMAIN cfg :
            (~EntrySkipped(cfg[k]) /\ FirstMatching(Snapshot, cfg[k]) # 0) =>
                LET id == IdentifierOf(cfg[k])
                    resolved == FirstMatchPerGuild(guilds, cfg[k])
                IN \A n \in DOMAIN resolved :
                     (HasKey(servers, id)
                      /\ HasKey(servers[id]._message_collection, resolved[n].id)) =>
                         \E m \in live :
                            /\ m.id = servers[id]._message_collection[resolved[n].id]
                            /\ m.content \in RenderedFrom(servers[id],
                                                MatchedRecord(cfg[k]).players)

(***************************************************************************)
(* C19: an identifier that is in the map stays in it, and the handles its  *)
(* Server tracks are kept by every step: a handle changes only for the     *)
(* channel that the Server is being published to.                          *)
(***************************************************************************)
HandleOf(all, id, ch) ==
    IF HasKey(all[id]._message_collection, ch)
    THEN <<all[id]._message_collection[ch]>> ELSE <<>>

C19_ServersAndHandlesKept ==
    [][ \A id \in DOMAIN servers :
          /\ id \in DOMAIN servers'
          /\ \A ch \in ChannelIds :
                HandleOf(servers', id, ch) # HandleOf(servers, id, ch)
                => (InCall /\ id = identifier /\ ch = channels[c].id) ]_vars

\* a whole second iteration has passed in which no entry of the
\* configuration was handled (one is not finalized, one matches no record),
\* and a Server of the first iteration still tracks its messages
C19_Witness ==
    /\ tick = 2
    /\ pc = "idle"
    /\ issued = <<>>
    /\ \E id \in DOMAIN servers : DOMAIN servers[id]._message_collection # {}
    /\ \E k \in DOMAIN cfg : NotFinalized(cfg[k])
    /\ \E k \in DOMAIN cfg : ~EntrySkipped(cfg[k]) /\ FirstMatching(Snapshot, cfg[k]) = 0

====
